---------------------------- MODULE Spec2Model ----------------------------
(***************************************************************************)
(* Model of the search coordinator EmojiSearchCore                         *)
(* (src/src/hooks/useEmojiSearch.ts, the class with the debounce timer,    *)
(* lines 305-500) together with the host objects it talks to: the timer    *)
(* table of setTimeout/clearTimeout, the injected worker, the injected     *)
(* loadDb and search promises.                                             *)
(*                                                                         *)
(* Every action is one run-to-completion step of the host's event loop:    *)
(* the synchronous code of a call or callback up to its next await.  The   *)
(* continuations that a settled promise releases run as microtasks before  *)
(* the host takes the next task, so they are part of the step that settles *)
(* the promise.                                                            *)
(***************************************************************************)
EXTENDS Integers, Sequences, FiniteSets, Bags, TLC

(***************************************************************************)
(* Bounds of the model.                                                    *)
(***************************************************************************)
\* calls of initialize() in one session
MaxInit == 1
\* `complete` handlers in progress at the same time
MaxMsgs == 2
\* classify calls in one burst
MaxBurst == 2
\* calls of initialize() in a session that breaks the one-call contract
MaxReinit == 2
\* rows in the embeddings table
MaxRows == 3
\* vectors in a batch given to packEmbeddingsBinary
MaxBatch == 2
\* calls of getDB
MaxGets == 4
\* text messages the worker receives in a session with the real worker
MaxQueries == 2

(***************************************************************************)
(* Program constants and input domains.                                    *)
(***************************************************************************)
DEBOUNCE_DELAY_MS == 150

\* granularity of the model clock: two ticks make one debounce delay
TickMs == DEBOUNCE_DELAY_MS \div 2

\* `null` for database, dbReadyPromise, dbReadyResolve and debounceTimer
NoDb == 0
NoPromise == 0
NoTimer == 0

\* a message's embedding field, absent or present
NoEmb == "none"
Embeddings == {"e1"}

\* the handle the k-th call of loadDb resolves with (a fresh object per call)
Handle(k) == k

\* characters and the texts classify is called with
Whitespace == {" "}
Texts == {<<>>, <<" ">>, <<"a">>, <<" ", "b">>}

\* the rows deps.search can resolve with
Row(ident) == [identifier |-> ident]
ResultLists == {<<>>, <<Row("y"), Row("x")>>}

\* the `status` field of a worker message ("progress" stands for every other
\* value, also for a message without status)
Statuses == {"initiate", "ready", "complete", "progress"}

VARIABLES
    matched,         \* [null, ids]: string[] | null
    modelReady,
    dbReady,
    isSearching,
    database,        \* NoDb or a handle
    dbReadyPromise,  \* NoPromise or the index of a promise in `promises`
    dbReadyResolve,  \* NoPromise or the index of the promise it resolves
    promises,        \* store-ready futures: NoDb while pending, else the value
    loads,           \* one entry per call of deps.loadDb
    initResults,     \* outcome of the promise each initialize() returned
    debounceTimer,   \* NoTimer or a timer id
    timers,          \* the host's live timers
    listening,       \* the message listener is registered on the worker
    hasTerminate,    \* the worker offers terminate()
    terminated,      \* worker.terminate() has been called
    preloads,        \* preload messages posted to the worker
    textPosts,       \* text messages posted since the last burst began
    lastTextPosted,  \* the last of them
    handlers,        \* the `complete` handlers in progress: a bag of records
    uncaught,        \* a handler's promise was rejected (nothing catches it)
    lastText,        \* text of the last classify call of the open burst
    burstCalls,      \* classify calls of the current burst (0: none is open)
    lateDispatch,    \* a timer that outlived a destroy() has posted
    lastClear,       \* the call that cancelled a dispatch of the last burst
    notified,        \* the last step called onStateChange
    table,           \* the rows of the embeddings table, in insertion order
    searchArgs,      \* the arguments of the last vector search
    searchRows,      \* the rows the last vector search returned
    searchCall,      \* the embedding search was called with, what it threw
    embeds,          \* the batch given to packEmbeddingsBinary
    packResult,      \* what packEmbeddingsBinary returned or threw
    input,           \* the bytes given to decodeEmbeddingsBinary
    meta,            \* the meta argument of decodeEmbeddingsBinary
    decodeResult,    \* what decodeEmbeddingsBinary returned or threw
    dbInstance,      \* the module variable of db.ts: NoDb or an instance
    gets,            \* the calls of getDB: what each built, how it ended
    instance,        \* PipelineSingleton.instance: NoPipe or a pipeline
    pipelineCalls,   \* calls of pipeline() so far
    jobs,            \* the worker's message handlers in progress (a bag)
    toMain,          \* messages the worker posted, not yet delivered
    received         \* text messages the worker has received

vars == <<matched, modelReady, dbReady, isSearching, database, dbReadyPromise,
          dbReadyResolve, promises, loads, initResults, debounceTimer, timers,
          listening, hasTerminate, terminated, preloads, textPosts,
          lastTextPosted, handlers, uncaught, lastText, burstCalls,
          lateDispatch, lastClear, notified, table, searchArgs, searchRows, searchCall,
          embeds,
          packResult, input, meta, decodeResult, dbInstance, gets, instance,
          pipelineCalls, jobs, toMain, received>>

coreState == <<matched, modelReady, dbReady, isSearching>>
dbVars == <<database, dbReadyPromise, dbReadyResolve, promises, loads,
            initResults>>
timerVars == <<debounceTimer, timers, lastText, burstCalls, lastClear>>
postVars == <<preloads, textPosts, lastTextPosted, lateDispatch>>
workerVars == <<listening, hasTerminate, terminated>>
storeVars == <<table, searchArgs, searchRows, searchCall>>
codecVars == <<embeds, packResult, input, meta, decodeResult>>
driverVars == <<dbInstance, gets>>
pipeVars == <<instance, pipelineCalls, jobs, toMain, received>>
libVars == <<storeVars, codecVars, driverVars>>
utilVars == <<libVars, pipeVars>>
coordVars == <<coreState, dbVars, timerVars, postVars, workerVars, handlers,
               uncaught, notified>>
\* everything but the store, the codec, the driver
notStore == <<coordVars, codecVars, driverVars, pipeVars>>
notCodec == <<coordVars, storeVars, driverVars, pipeVars>>
notDriver == <<coordVars, storeVars, codecVars, pipeVars>>

\* no call of the vector store or of the codec has been made
NoCall == [called |-> FALSE]
StoreIdle ==
    /\ table = <<>>
    /\ searchArgs = NoCall
    /\ searchRows = <<>>
    /\ searchCall = NoCall
CodecIdle ==
    /\ embeds = <<>>
    /\ packResult = NoCall
    /\ input = <<>>
    /\ meta = NoCall
    /\ decodeResult = NoCall

MatchedNull == [null |-> TRUE, ids |-> <<>>]
MatchedOf(ids) == [null |-> FALSE, ids |-> ids]

(***************************************************************************)
(* String.prototype.trim on a text: strip whitespace at both ends.         *)
(***************************************************************************)
RECURSIVE TrimStart(_)
TrimStart(s) ==
    IF s # <<>> /\ Head(s) \in Whitespace THEN TrimStart(Tail(s)) ELSE s

RECURSIVE TrimEnd(_)
TrimEnd(s) ==
    IF s # <<>> /\ s[Len(s)] \in Whitespace
    THEN TrimEnd(SubSeq(s, 1, Len(s) - 1))
    ELSE s

\* Mutant of Trim: the text is tested untrimmed.
Trim_Untrimmed(s) == s

Trim(s) == TrimEnd(TrimStart(s))

\* results.map((r) => r.identifier)
Identifiers(results) == [i \in 1..Len(results) |-> results[i].identifier]

\* a text message, with the time its timer had waited when it was posted
NoMsg == [text |-> <<>>, waited |-> 0]
TextMsg(text, waited) == [text |-> text, waited |-> waited]

\* a handler that has returned, and the handler of a `complete` message at
\* its start; `calls` counts the handler's calls of deps.search
Idle == [pc |-> "idle", emb |-> NoEmb, promise |-> NoPromise, db |-> NoDb,
         calls |-> 0]
NewHandler(emb) == [Idle EXCEPT !.pc = "start", !.emb = emb]

\* the part of bag B on the elements in S, and B without returned handlers
Restrict(B, S) == [h \in S \cap BagToSet(B) |-> B[h]]
InProgress(B) == Restrict(B, {h \in BagToSet(B) : h.pc # "idle"})
One(h) == SetToBag({h})

CoreInit ==
    /\ matched = MatchedNull
    /\ modelReady = FALSE
    /\ dbReady = FALSE
    /\ isSearching = FALSE
    /\ database = NoDb
    /\ dbReadyPromise = NoPromise
    /\ dbReadyResolve = NoPromise
    /\ promises = <<>>
    /\ loads = <<>>
    /\ initResults = <<>>
    /\ debounceTimer = NoTimer
    /\ timers = {}
    /\ listening = TRUE
    /\ hasTerminate \in BOOLEAN
    /\ terminated = FALSE
    /\ preloads = 0
    /\ textPosts = 0
    /\ lastTextPosted = NoMsg
    /\ handlers = EmptyBag
    /\ uncaught = FALSE
    /\ lastText = <<>>
    /\ burstCalls = 0
    /\ lateDispatch = FALSE
    /\ lastClear = "none"
    /\ notified = FALSE

DriverIdle == dbInstance = NoDb /\ gets = <<>>

\* the worker's module state when its script has run
NoPipe == 0
WorkerIdle ==
    /\ instance = NoPipe
    /\ pipelineCalls = 0
    /\ jobs = EmptyBag
    /\ toMain = <<>>
    /\ received = 0

Init == CoreInit /\ StoreIdle /\ CodecIdle /\ DriverIdle /\ WorkerIdle

(***************************************************************************)
(* initialize(): a fresh store-ready future, loadDatabase() up to its      *)
(* await of deps.loadDb(), then the preload message.  The async function   *)
(* has no await of its own, so the promise it returns is fulfilled when    *)
(* it returns.                                                             *)
(***************************************************************************)
InitializeBody ==
    /\ promises' = Append(promises, NoDb)
    /\ dbReadyPromise' = Len(promises) + 1
    /\ dbReadyResolve' = Len(promises) + 1
    /\ loads' = Append(loads, "pending")
    /\ preloads' = preloads + 1
    /\ initResults' = Append(initResults, "fulfilled")
    /\ notified' = FALSE
    /\ UNCHANGED <<libVars, coreState, database, handlers, uncaught, timerVars,
                   textPosts, lastTextPosted, lateDispatch, workerVars>>

\* Mutant of InitializeCall: initialize() awaits loadDatabase() before it
\* posts the preload, so the call's first step posts nothing.
InitializeCall_LoadThenPreload ==
    /\ promises' = Append(promises, NoDb)
    /\ dbReadyPromise' = Len(promises) + 1
    /\ dbReadyResolve' = Len(promises) + 1
    /\ loads' = Append(loads, "pending")
    /\ initResults' = Append(initResults, "fulfilled")
    /\ notified' = FALSE
    /\ UNCHANGED <<utilVars, coreState, database, handlers, uncaught, timerVars,
                   postVars, workerVars>>

\* initialize() with an injected worker that is not the script of worker.ts
\* (deps.createWorker): nothing of that script runs
InitializeCall == InitializeBody /\ UNCHANGED pipeVars
Initialize == Len(loads) < MaxInit /\ InitializeCall

(***************************************************************************)
(* The `complete` case once `db` has its value: the rest of the handler up *)
(* to the await of deps.search (or to its return), for the handler h.      *)
(***************************************************************************)
\* Mutant of AfterDb: the handler calls deps.search a second time.
AfterDb_SearchTwice(h, db) ==
    IF db = NoDb \/ h.emb = NoEmb
    THEN Idle
    ELSE [h EXCEPT !.pc = "awaitSearch", !.db = db, !.calls = h.calls + 2]

AfterDb(h, db) ==
    IF db = NoDb \/ h.emb = NoEmb
    THEN Idle
    ELSE [h EXCEPT !.pc = "awaitSearch", !.db = db, !.calls = h.calls + 1]

\* the handlers that settling promise p releases
Released(p) ==
    Restrict(handlers, {h \in BagToSet(handlers) :
                           h.pc = "awaitDb" /\ h.promise = p})

\* Mutant of LoadDbResolve: the store-ready future is never resolved.
LoadDbResolve_NoResolve(k) ==
    /\ loads[k] = "pending"
    /\ loads' = [loads EXCEPT ![k] = "ok"]
    /\ database' = Handle(k)
    /\ dbReady' = TRUE
    /\ notified' = TRUE
    /\ UNCHANGED <<utilVars, matched, modelReady, isSearching, dbReadyPromise,
                   dbReadyResolve, promises, initResults, handlers, uncaught,
                   timerVars, postVars, workerVars>>

(***************************************************************************)
(* deps.loadDb() of the k-th loadDatabase() resolves: the rest of the try  *)
(* block, and the continuations of the handlers that await the future it   *)
(* resolves.  Resolving a settled promise does nothing.                    *)
(***************************************************************************)
LoadDbResolve(k) ==
    /\ loads[k] = "pending"
    /\ loads' = [loads EXCEPT ![k] = "ok"]
    /\ database' = Handle(k)
    /\ dbReady' = TRUE
    /\ LET db == Handle(k)
           p == dbReadyResolve
           settles == p # NoPromise /\ promises[p] = NoDb
           woken == IF settles THEN Released(p) ELSE EmptyBag
           resumed == BagOfAll(LAMBDA h : AfterDb(h, db), woken)
       IN  /\ promises' = IF settles THEN [promises EXCEPT ![p] = db]
                          ELSE promises
           /\ handlers' = InProgress((handlers (-) woken) (+) resumed)
           /\ isSearching' = IF BagIn(Idle, resumed) THEN FALSE
                             ELSE isSearching
    /\ notified' = TRUE
    /\ UNCHANGED <<utilVars, matched, modelReady, dbReadyPromise, dbReadyResolve,
                   initResults, uncaught, timerVars, postVars, workerVars>>

\* Mutant of LoadDbReject: the catch block resolves the store-ready future
\* with null, which releases the waiting handlers.
LoadDbReject_ResolvesNull(k) ==
    /\ loads[k] = "pending"
    /\ loads' = [loads EXCEPT ![k] = "failed"]
    /\ LET woken == IF dbReadyResolve # NoPromise
                    THEN Released(dbReadyResolve) ELSE EmptyBag
       IN  /\ handlers' = handlers (-) woken
           /\ isSearching' = IF woken # EmptyBag THEN FALSE ELSE isSearching
    /\ notified' = (dbReadyResolve # NoPromise
                     /\ Released(dbReadyResolve) # EmptyBag)
    /\ UNCHANGED <<utilVars, matched, modelReady, dbReady, database, dbReadyPromise,
                   dbReadyResolve, promises, initResults, uncaught, timerVars,
                   postVars, workerVars>>

\* Mutant of LoadDbReject: the rejection reaches the promise initialize()
\* returned.
LoadDbReject_Propagates(k) ==
    /\ loads[k] = "pending"
    /\ loads' = [loads EXCEPT ![k] = "failed"]
    /\ initResults' = [initResults EXCEPT ![k] = "rejected"]
    /\ notified' = FALSE
    /\ UNCHANGED <<utilVars, coreState, database, dbReadyPromise, dbReadyResolve,
                   promises, handlers, uncaught, timerVars, postVars,
                   workerVars>>

(***************************************************************************)
(* deps.loadDb() of the k-th loadDatabase() rejects: the catch block logs  *)
(* the error and loadDatabase() returns normally.                          *)
(***************************************************************************)
LoadDbReject(k) ==
    /\ loads[k] = "pending"
    /\ loads' = [loads EXCEPT ![k] = "failed"]
    /\ notified' = FALSE
    /\ UNCHANGED <<utilVars, coreState, database, dbReadyPromise, dbReadyResolve,
                   promises, initResults, handlers, uncaught, timerVars,
                   postVars, workerVars>>

(***************************************************************************)
(* handleWorkerMessage, case `complete`, from the message to its first     *)
(* await (or to its return).                                               *)
(***************************************************************************)

\* Mutant of FirstStep: the handler reads this.database and never awaits the
\* store-ready future.
FirstStep_NoWait(emb) == AfterDb(NewHandler(emb), database)

FirstStep(emb) ==
    LET h == NewHandler(emb)
        waits == database = NoDb /\ dbReadyPromise # NoPromise
        \* an await of a settled promise continues with its value
        suspended == waits /\ promises[dbReadyPromise] = NoDb
        db == IF waits THEN promises[dbReadyPromise] ELSE database
    IN  IF suspended
        THEN [h EXCEPT !.pc = "awaitDb", !.promise = dbReadyPromise]
        ELSE AfterDb(h, db)

\* Mutant of OnComplete: a message without embedding returns before the
\* handler looks for the store.
OnComplete_EmbeddingFirst(emb) ==
    LET next == IF emb = NoEmb THEN Idle ELSE FirstStep(emb)
    IN  IF next = Idle
        THEN /\ isSearching' = FALSE
             /\ UNCHANGED <<matched, modelReady, dbReady, handlers>>
        ELSE /\ BagCardinality(handlers) < MaxMsgs
             /\ handlers' = handlers (+) One(next)
             /\ UNCHANGED coreState

OnComplete(emb) ==
    LET next == FirstStep(emb)
    IN  IF next = Idle
        THEN /\ isSearching' = FALSE
             /\ UNCHANGED <<matched, modelReady, dbReady, handlers>>
        ELSE /\ BagCardinality(handlers) < MaxMsgs
             /\ handlers' = handlers (+) One(next)
             /\ UNCHANGED coreState

(***************************************************************************)
(* handleWorkerMessage: the listener runs only while it is registered.     *)
(***************************************************************************)
OnWorkerMessage(status, emb) ==
    /\ listening
    /\ CASE status = "initiate" ->
              /\ modelReady' = FALSE
              /\ UNCHANGED <<matched, dbReady, isSearching, handlers>>
         [] status = "ready" ->
              /\ modelReady' = TRUE
              /\ UNCHANGED <<matched, dbReady, isSearching, handlers>>
         [] status = "complete" ->
              OnComplete(emb)
         [] OTHER ->
              UNCHANGED <<coreState, handlers>>
    /\ notified' = (\/ status \in {"initiate", "ready"}
                    \/ status = "complete" /\ FirstStep(emb) = Idle)
    /\ UNCHANGED <<libVars, dbVars, uncaught, timerVars, postVars, workerVars>>

\* Mutant of HandleWorkerMessage: `ready` also switches the spinner off.
HandleWorkerMessage_ReadyClears(status, emb) ==
    /\ listening
    /\ CASE status = "initiate" ->
              /\ modelReady' = FALSE
              /\ UNCHANGED <<matched, dbReady, isSearching, handlers>>
         [] status = "ready" ->
              /\ modelReady' = TRUE
              /\ isSearching' = FALSE
              /\ UNCHANGED <<matched, dbReady, handlers>>
         [] status = "complete" ->
              OnComplete(emb)
         [] OTHER ->
              UNCHANGED <<coreState, handlers>>
    /\ notified' = (\/ status \in {"initiate", "ready"}
                    \/ status = "complete" /\ FirstStep(emb) = Idle)
    /\ UNCHANGED <<utilVars, dbVars, uncaught, timerVars, postVars, workerVars>>

\* a message from an injected worker that is not the script of worker.ts
HandleWorkerMessage(status, emb) ==
    OnWorkerMessage(status, emb) /\ UNCHANGED pipeVars
(***************************************************************************)
(* deps.search of handler h resolves with results: the rest of the         *)
(* `complete` case.                                                        *)
(***************************************************************************)
SearchResolve(h, results) ==
    /\ BagIn(h, handlers)
    /\ h.pc = "awaitSearch"
    /\ matched' = MatchedOf(Identifiers(results))
    /\ isSearching' = FALSE
    /\ handlers' = handlers (-) One(h)
    /\ notified' = TRUE
    /\ UNCHANGED <<utilVars, modelReady, dbReady, dbVars, uncaught, timerVars,
                   postVars, workerVars>>

(***************************************************************************)
(* deps.search of handler h rejects: the await throws inside the async     *)
(* handler, nothing catches it, the rest of the case never runs.           *)
(***************************************************************************)
SearchReject(h) ==
    /\ BagIn(h, handlers)
    /\ h.pc = "awaitSearch"
    /\ handlers' = handlers (-) One(h)
    /\ uncaught' = TRUE
    /\ notified' = FALSE
    /\ UNCHANGED <<utilVars, coreState, dbVars, timerVars, postVars, workerVars>>

(***************************************************************************)
(* The host's timers.  A timer is due once its delay has elapsed; the host *)
(* runs a due callback before it lets more time pass or takes the next     *)
(* classify call.  clearTimeout removes the timer from the table.          *)
(***************************************************************************)
Due(t) == t.elapsed >= DEBOUNCE_DELAY_MS
TimerDue == \E t \in timers : Due(t)

ClearTimeout(id) == {t \in timers : t.id # id}

\* Mutant of ClearDebounce: the pending timer is not cancelled.
ClearDebounce_Keep == timers

\* the first lines of classify and of destroy
ClearDebounce ==
    IF debounceTimer # NoTimer THEN ClearTimeout(debounceTimer) ELSE timers

\* setTimeout: a handle no live timer has
NewTimerId(live) ==
    CHOOSE n \in 1..(Cardinality(live) + 1) : \A t \in live : t.id # n

\* Mutant of Classify: the spinner is not switched on by the call.
Classify_SpinnerOnDispatch(text) ==
    /\ ~TimerDue
    /\ IF Trim(text) = <<>>
       THEN /\ timers' = ClearDebounce
            /\ debounceTimer' = NoTimer
            /\ matched' = MatchedNull
            /\ isSearching' = FALSE
            /\ burstCalls' = 0
            /\ lastText' = <<>>
            /\ lastClear' = IF debounceTimer # NoTimer THEN "classifyEmpty"
                            ELSE lastClear
            /\ UNCHANGED <<textPosts, lastTextPosted>>
       ELSE /\ debounceTimer # NoTimer => burstCalls < MaxBurst
            /\ LET live == ClearDebounce
                   id == NewTimerId(live)
               IN  /\ timers' = live \cup
                         {[id |-> id, text |-> text, elapsed |-> 0,
                           orphan |-> FALSE]}
                   /\ debounceTimer' = id
            /\ isSearching' = isSearching
            /\ lastText' = text
            /\ lastClear' = IF debounceTimer # NoTimer THEN "classify"
                            ELSE "none"
            /\ burstCalls' = IF debounceTimer # NoTimer
                             THEN burstCalls + 1 ELSE 1
            /\ IF debounceTimer # NoTimer
               THEN UNCHANGED <<textPosts, lastTextPosted>>
               ELSE textPosts' = 0 /\ lastTextPosted' = NoMsg
            /\ UNCHANGED matched
    /\ notified' = TRUE
    /\ UNCHANGED <<utilVars, modelReady, dbReady, dbVars, handlers, uncaught, preloads,
                   lateDispatch, workerVars>>

(***************************************************************************)
(* classify(text)                                                          *)
(***************************************************************************)
Classify(text) ==
    /\ ~TimerDue
    /\ IF Trim(text) = <<>>
       THEN /\ timers' = ClearDebounce
            /\ debounceTimer' = NoTimer
            /\ matched' = MatchedNull
            /\ isSearching' = FALSE
            /\ burstCalls' = 0
            /\ lastText' = <<>>
            /\ lastClear' = IF debounceTimer # NoTimer THEN "classifyEmpty"
                            ELSE lastClear
            /\ UNCHANGED <<textPosts, lastTextPosted>>
       ELSE /\ debounceTimer # NoTimer => burstCalls < MaxBurst
            /\ LET live == ClearDebounce
                   id == NewTimerId(live)
               IN  /\ timers' = live \cup
                         {[id |-> id, text |-> text, elapsed |-> 0,
                           orphan |-> FALSE]}
                   /\ debounceTimer' = id
            /\ isSearching' = TRUE
            /\ lastText' = text
            /\ lastClear' = IF debounceTimer # NoTimer THEN "classify"
                            ELSE "none"
            /\ burstCalls' = IF debounceTimer # NoTimer
                             THEN burstCalls + 1 ELSE 1
            /\ IF debounceTimer # NoTimer
               THEN UNCHANGED <<textPosts, lastTextPosted>>
               ELSE textPosts' = 0 /\ lastTextPosted' = NoMsg
            /\ UNCHANGED matched
    /\ notified' = TRUE
    /\ UNCHANGED <<utilVars, modelReady, dbReady, dbVars, handlers, uncaught, preloads,
                   lateDispatch, workerVars>>

(***************************************************************************)
(* The callback classify handed to setTimeout, run by the host for the     *)
(* live timer t.                                                           *)
(***************************************************************************)
TimerCallback(t) ==
    /\ t \in timers
    /\ Due(t)
    /\ timers' = timers \ {t}
    /\ debounceTimer' = NoTimer
    /\ lastTextPosted' = TextMsg(t.text, t.elapsed)
    /\ textPosts' = textPosts + 1
    /\ lateDispatch' = (lateDispatch \/ t.orphan)
    /\ lastClear' = "none"
    /\ notified' = FALSE
    /\ UNCHANGED <<libVars, coreState, dbVars, handlers, uncaught, lastText,
                   burstCalls, preloads, workerVars>>

\* Mutant of TimerFire: the callback does not clear this.debounceTimer.
TimerFire_KeepHandle(t) ==
    /\ t \in timers
    /\ Due(t)
    /\ timers' = timers \ {t}
    /\ lastTextPosted' = TextMsg(t.text, t.elapsed)
    /\ textPosts' = textPosts + 1
    /\ lateDispatch' = (lateDispatch \/ t.orphan)
    /\ lastClear' = "none"
    /\ notified' = FALSE
    /\ UNCHANGED <<utilVars, coreState, dbVars, handlers, uncaught, debounceTimer,
                   lastText, burstCalls, preloads, workerVars>>

\* the callback with an injected worker that is not the script of worker.ts
TimerFire(t) == TimerCallback(t) /\ UNCHANGED pipeVars
\* TickMs pass without any timer becoming overdue
Tick ==
    /\ timers # {}
    /\ ~TimerDue
    /\ timers' = {[t EXCEPT !.elapsed = t.elapsed + TickMs] : t \in timers}
    /\ notified' = FALSE
    /\ UNCHANGED <<utilVars, coreState, dbVars, handlers, uncaught, debounceTimer,
                   lastText, burstCalls, lastClear, postVars, workerVars>>

\* Mutant of Destroy: only the listener is removed.
Destroy_ListenerOnly ==
    /\ timers' = {[t EXCEPT !.orphan = TRUE] : t \in timers}
    /\ listening' = FALSE
    /\ notified' = FALSE
    /\ UNCHANGED <<utilVars, coreState, dbVars, handlers, uncaught, debounceTimer,
                   lastText, burstCalls, lastClear, postVars, hasTerminate,
                   terminated>>

(***************************************************************************)
(* destroy().  A timer it leaves in the host's table is an orphan.         *)
(***************************************************************************)
Destroy ==
    /\ timers' = {[t EXCEPT !.orphan = TRUE] : t \in ClearDebounce}
    /\ debounceTimer' = NoTimer
    /\ burstCalls' = 0
    /\ lastText' = <<>>
    /\ lastClear' = IF debounceTimer # NoTimer THEN "destroy" ELSE lastClear
    /\ listening' = FALSE
    /\ terminated' = (terminated \/ hasTerminate)
    /\ notified' = FALSE
    /\ UNCHANGED <<utilVars, coreState, dbVars, handlers, uncaught, postVars,
                   hasTerminate>>

Next ==
    \/ Initialize
    \/ \E k \in DOMAIN loads : LoadDbResolve(k)
    \/ \E k \in DOMAIN loads : LoadDbReject(k)
    \/ \E status \in Statuses, emb \in Embeddings \cup {NoEmb} :
          HandleWorkerMessage(status, emb)
    \/ \E h \in BagToSet(handlers), results \in ResultLists :
          SearchResolve(h, results)
    \/ \E h \in BagToSet(handlers) : SearchReject(h)
    \/ \E text \in Texts : Classify(text)
    \/ \E t \in timers : TimerFire(t)
    \/ Tick
    \/ Destroy

Spec == Init /\ [][Next]_vars

(***************************************************************************)
(* A session that keeps the caller contract of initialize() (one call per  *)
(* session), in which every promise of deps.loadDb and deps.search settles *)
(* and the host runs every due timer.                                      *)
(***************************************************************************)
InitializeOnce == loads = <<>> /\ Initialize

LoadSettles == \E k \in DOMAIN loads : LoadDbResolve(k) \/ LoadDbReject(k)
SearchSettles ==
    \E h \in BagToSet(handlers) :
        \/ \E results \in ResultLists : SearchResolve(h, results)
        \/ SearchReject(h)
TimerRuns == \E t \in timers : TimerFire(t)

NextSession ==
    \/ InitializeOnce
    \/ \E k \in DOMAIN loads : LoadDbResolve(k)
    \/ \E k \in DOMAIN loads : LoadDbReject(k)
    \/ \E status \in Statuses, emb \in Embeddings \cup {NoEmb} :
          HandleWorkerMessage(status, emb)
    \/ \E h \in BagToSet(handlers), results \in ResultLists :
          SearchResolve(h, results)
    \/ \E h \in BagToSet(handlers) : SearchReject(h)
    \/ \E text \in Texts : Classify(text)
    \/ \E t \in timers : TimerFire(t)
    \/ Tick
    \/ Destroy

SessionSpec ==
    /\ Init
    /\ [][NextSession]_vars
    /\ WF_vars(LoadSettles)
    /\ WF_vars(SearchSettles)
    /\ WF_vars(TimerRuns)

(***************************************************************************)
(* A session whose caller calls initialize() again: the coordinator, its   *)
(* store loads and the worker's messages, without queries being typed.     *)
(***************************************************************************)
Reinitialize == Len(loads) < MaxReinit /\ InitializeCall

NextReinit ==
    \/ Reinitialize
    \/ \E k \in DOMAIN loads : LoadDbResolve(k)
    \/ \E k \in DOMAIN loads : LoadDbReject(k)
    \/ \E status \in Statuses, emb \in Embeddings \cup {NoEmb} :
          HandleWorkerMessage(status, emb)
    \/ \E h \in BagToSet(handlers), results \in ResultLists :
          SearchResolve(h, results)
    \/ \E h \in BagToSet(handlers) : SearchReject(h)

ReinitSpec == Init /\ [][NextReinit]_vars

-----------------------------------------------------------------------------
(***************************************************************************)
(* The vector store: the embeddings table and the query of search          *)
(* (src/src/utils/db.ts) and searchEmbeddings (src/src/utils/pglite.ts),   *)
(* which are the same SQL.  Numbers are integers: components, inner        *)
(* products and thresholds are counted in one common unit.  The `content`  *)
(* column rides along with a row and is left out.                          *)
(***************************************************************************)
Vectors == {<<1, 0>>, <<1, 1>>, <<2, 1>>}
Queries == {<<1, 0>>, <<1, 1>>}
EmojiIdentifiers == {"a", "b"}
Thresholds == {0, 1}
Limits == {0, 1, 2}

\* the order of text values under ORDER BY
Collation == <<"a", "b">>
Rank(x) == CHOOSE i \in DOMAIN Collation : Collation[i] = x

RECURSIVE Dot(_, _)
Dot(a, b) ==
    IF a = <<>> \/ b = <<>> THEN 0
    ELSE Head(a) * Head(b) + Dot(Tail(a), Tail(b))

\* pgvector's <#>: the negated inner product
NegInnerProduct(a, b) == 0 - Dot(a, b)

\* from embeddings, with (embedding <#> $1) as dist
WithDist(tbl, q) ==
    {[id |-> i, identifier |-> tbl[i].identifier,
      embedding |-> tbl[i].embedding,
      dist |-> NegInnerProduct(tbl[i].embedding, q)] : i \in DOMAIN tbl}

\* where embedding <#> $1 < $2
Where(tbl, q, bound) == {r \in WithDist(tbl, q) : r.dist < bound}

\* order by identifier, dist
ByIdentifierDist(r1, r2) ==
    \/ Rank(r1.identifier) < Rank(r2.identifier)
    \/ r1.identifier = r2.identifier /\ r1.dist <= r2.dist

\* order by d.dist
ByDist(r1, r2) == r1.dist <= r2.dist

\* ORDER BY keys: every arrangement of the rows S that ascends in the keys;
\* rows that compare equal come out in any order
Orderings(S, keys) ==
    {s \in [1..Cardinality(S) -> S] :
        /\ \A i, j \in DOMAIN s :
              i < j => /\ s[i] # s[j]
                       /\ IF keys = "identifier, dist"
                          THEN ByIdentifierDist(s[i], s[j])
                          ELSE ByDist(s[i], s[j])}

\* Mutant of DistinctOn: the last row of each run is kept (dist descending).
DistinctOn_Last(s) ==
    {s[i] : i \in {k \in DOMAIN s :
                     k = Len(s) \/ s[k + 1].identifier # s[k].identifier}}

\* select distinct on (identifier): the first row of each run of rows with
\* the same identifier
DistinctOn(s) ==
    {s[i] : i \in {k \in DOMAIN s :
                     k = 1 \/ s[k - 1].identifier # s[k].identifier}}

\* limit $3
Take(s, n) == SubSeq(s, 1, IF n < Len(s) THEN n ELSE Len(s))

\* select id, identifier, content, embedding
Columns(s) ==
    [i \in DOMAIN s |-> [id |-> s[i].id, identifier |-> s[i].identifier,
                         embedding |-> s[i].embedding]]

\* Mutant of SearchQuery: the limit cuts the rows before the duplicates of an
\* identifier are removed.
SearchQuery_LimitFirst(tbl, q, match_threshold, limit) ==
    UNION {{Columns(outer) :
              outer \in Orderings(DistinctOn(Take(inner, limit)), "dist")} :
           inner \in Orderings(Where(tbl, q, 0 - match_threshold), "dist")}

\* the results the query can return for the parameters
\* [embedding, -match_threshold, limit]
SearchQuery(tbl, q, match_threshold, limit) ==
    UNION {{Columns(Take(outer, limit)) :
              outer \in Orderings(DistinctOn(inner), "dist")} :
           inner \in Orderings(Where(tbl, q, 0 - match_threshold),
                               "identifier, dist")}

\* insert into embeddings (identifier, content, embedding); the id is
\* generated as identity.  A run fills the table and then searches it once.
InsertRow(identifier, embedding) ==
    /\ Len(table) < MaxRows
    /\ ~searchCall.called
    /\ table' = Append(table, [identifier |-> identifier,
                               embedding |-> embedding])
    /\ UNCHANGED <<searchArgs, searchRows, searchCall, notStore>>

(***************************************************************************)
(* The `embedding` argument of search, as the validation sees it: whether  *)
(* Array.isArray holds, its length, whether every element has type         *)
(* number; `vec` is the vector it stands for in the model's units.         *)
(***************************************************************************)
XEN_DIMENSIONS == 384
DEFAULT_DIMENSIONS == XEN_DIMENSIONS

Arg(isArray, length, numbers, vec) ==
    [isArray |-> isArray, length |-> length, numbers |-> numbers,
     vec |-> vec]

\* number[] of 384 numbers
NumberArrays == {Arg(TRUE, DEFAULT_DIMENSIONS, TRUE, q) : q \in Queries}
\* a Float32Array of 384 numbers, arrays one too short and one too long, an
\* empty array, and an array of 384 values one of which is a string
OtherArgs ==
    {Arg(FALSE, DEFAULT_DIMENSIONS, TRUE, <<1, 0>>),
     Arg(TRUE, DEFAULT_DIMENSIONS - 1, TRUE, <<1, 0>>),
     Arg(TRUE, DEFAULT_DIMENSIONS + 1, TRUE, <<1, 0>>),
     Arg(TRUE, 0, TRUE, <<1, 0>>),
     Arg(TRUE, DEFAULT_DIMENSIONS, FALSE, <<1, 0>>)}
SearchArguments == NumberArrays \cup OtherArgs

\* Mutant of Rejected: the element types are not looked at.
Rejected_LengthOnly(e) == ~e.isArray \/ e.length # DEFAULT_DIMENSIONS

\* the condition of the throw, lines 280-282
Rejected(e) ==
    \/ ~e.isArray
    \/ e.length # DEFAULT_DIMENSIONS
    \/ ~e.numbers

\* search(db, embedding, match_threshold, limit): throws the TypeError, or
\* sends the query and resolves with res.rows
Search(embedding, match_threshold, limit) ==
    /\ ~searchCall.called
    /\ IF Rejected(embedding)
       THEN /\ searchCall' = [called |-> TRUE, embedding |-> embedding,
                              threw |-> "TypeError"]
            /\ UNCHANGED <<searchArgs, searchRows>>
       ELSE /\ searchCall' = [called |-> TRUE, embedding |-> embedding,
                              threw |-> ""]
            /\ searchArgs' = [called |-> TRUE, embedding |-> embedding.vec,
                              match_threshold |-> match_threshold,
                              limit |-> limit]
            /\ searchRows' \in SearchQuery(table, embedding.vec,
                                           match_threshold, limit)
    /\ UNCHANGED <<table, notStore>>

NextStore ==
    \/ \E identifier \in EmojiIdentifiers, embedding \in Vectors :
          InsertRow(identifier, embedding)
    \/ \E embedding \in SearchArguments, match_threshold \in Thresholds,
          limit \in Limits : Search(embedding, match_threshold, limit)

StoreSpec == Init /\ [][NextStore]_vars

-----------------------------------------------------------------------------
(***************************************************************************)
(* The embeddings codec (src/unnamed/part_011).                            *)
(*                                                                         *)
(* A vector is [exp, comps]: its d-th number is comps[d] * 2^exp, so the   *)
(* numbers of one vector share a binary exponent.  With components of      *)
(* magnitude up to 3 the double arithmetic of the quantisation is exact    *)
(* (vec[d] / scale rounds as the rational comps[d] * 127 / maxAbs does),   *)
(* and the exponent decides what becomes of the scale as a float32: it is  *)
(* kept, underflows to 0 or overflows to Infinity.                         *)
(***************************************************************************)
Vec(exp, comps) == [exp |-> exp, comps |-> comps]

\* the vectors the batches are made of: the zero vector, ties of the
\* rounding in both directions, a vector of another length, a vector whose
\* scale underflows float32 and one whose scale overflows it
CodecVectors ==
    {Vec(0, <<0, 0>>), Vec(0, <<2, 1>>), Vec(0, <<2, -1>>), Vec(0, <<-3, 1>>),
     Vec(0, <<1>>), Vec(-160, <<3, 1>>), Vec(140, <<1, 2>>)}

Contents == {"c"}
EmbeddingRows ==
    {[content |-> c, embedding |-> v] : c \in Contents, v \in CodecVectors}

RECURSIVE SeqsUpTo(_, _)
SeqsUpTo(S, n) ==
    IF n = 0 THEN {<<>>}
    ELSE LET shorter == SeqsUpTo(S, n - 1)
         IN  shorter \cup {Append(s, x) : s \in shorter, x \in S}

Batches == SeqsUpTo(EmbeddingRows, MaxBatch)

Abs(x) == IF x < 0 THEN 0 - x ELSE x
Min(a, b) == IF a < b THEN a ELSE b
Max(a, b) == IF a > b THEN a ELSE b

\* the loop of lines 30-34, in units of 2^exp
RECURSIVE MaxAbs(_)
MaxAbs(comps) ==
    IF comps = <<>> THEN 0
    ELSE LET v == Abs(Head(comps))
             rest == MaxAbs(Tail(comps))
         IN  IF v > rest THEN v ELSE rest

\* a positive double num / den * 2^exp
Ratio(num, den, exp) == [num |-> num, den |-> den, exp |-> exp]

\* scale = maxAbs > 0 ? maxAbs / 127 : 1
ScaleOf(vec) ==
    IF MaxAbs(vec.comps) > 0
    THEN Ratio(MaxAbs(vec.comps), 127, vec.exp)
    ELSE Ratio(1, 1, 0)

\* Math.round(n / d) for d > 0: the nearest integer, a tie goes up
MathRound(n, d) == (2 * n + d) \div (2 * d)

\* Math.max(-127, Math.min(127, Math.round(vec[d] / scale))): the scale has
\* the vector's exponent unless the vector is zero, so the powers of two
\* cancel
Quantize(c, vec) ==
    Max(-127, Min(127, MathRound(c * ScaleOf(vec).den, ScaleOf(vec).num)))

(***************************************************************************)
(* Float32Array element store: the double num / den * 2^exp rounded to the *)
(* nearest float32 (ties to even), as [kind, e, mant] with value           *)
(* mant * 2^(e - 23), 2^23 <= mant < 2^24 for a normal number.             *)
(***************************************************************************)
F32(kind, e, mant) == [kind |-> kind, neg |-> FALSE, e |-> e, mant |-> mant]
F32Zero == F32("zero", 0, 0)
F32Inf == F32("inf", 0, 0)
F32One == F32("normal", 0, 2^23)

ToFloat32(x) ==
    LET k == CHOOSE k \in 0..7 :
                 x.den <= x.num * 2^k /\ x.num * 2^k < 2 * x.den
        N == x.num * 2^k * 2^23
        q == N \div x.den
        r == N % x.den
        up == (r > x.den - r) \/ (r = x.den - r /\ q % 2 = 1)
        m0 == IF up THEN q + 1 ELSE q
        mant == IF m0 = 2^24 THEN 2^23 ELSE m0
        e == IF m0 = 2^24 THEN x.exp - k + 1 ELSE x.exp - k
        \* below the normal range the fraction has 2^(-126 - e) fewer bits
        D == x.den * 2^(0 - 126 - e)
        sq == N \div D
        sr == N % D
        sub == IF (sr > D - sr) \/ (sr = D - sr /\ sq % 2 = 1)
               THEN sq + 1 ELSE sq
    IN  IF e > 127 THEN F32Inf
        ELSE IF e >= -126 THEN F32("normal", e, mant)
        ELSE IF e < -150 \/ sub = 0 THEN F32Zero
        ELSE IF sub = 2^23 THEN F32("normal", -126, sub)
        ELSE F32("subnormal", -126, sub)

(***************************************************************************)
(* Bytes of the buffer (DataView and typed arrays, little-endian).         *)
(***************************************************************************)
\* dv.setUint32(off, n, true)
Uint32LE(n) ==
    <<n % 256, (n \div 256) % 256, (n \div 65536) % 256,
      (n \div 16777216) % 256>>

\* the bit pattern of a float32 without its sign bit
Float32Bits(f) ==
    CASE f.kind = "zero" -> 0
      [] f.kind = "subnormal" -> f.mant
      [] f.kind = "normal" -> (f.e + 127) * 2^23 + (f.mant - 2^23)
      [] f.kind = "inf" -> 255 * 2^23
      [] f.kind = "nan" -> 255 * 2^23 + 2^22

\* an element of a Float32Array / Int8Array in the buffer
Float32LE(f) ==
    LET b == Uint32LE(Float32Bits(f))
    IN  <<b[1], b[2], b[3], b[4] + (IF f.neg THEN 128 ELSE 0)>>
Int8Byte(q) == (q + 256) % 256

RECURSIVE Flatten(_)
Flatten(ss) == IF ss = <<>> THEN <<>> ELSE Head(ss) \o Flatten(Tail(ss))

\* what a call returned, or the message of the Error it threw
Threw(message) == [called |-> TRUE, threw |-> message]

\* const scales = new Float32Array(n), filled by the loop
ScalesOf(embs) ==
    [i \in DOMAIN embs |-> ToFloat32(ScaleOf(embs[i].embedding))]

\* const data = new Int8Array(n * dim), filled by the loop
DataOf(embs) ==
    Flatten([i \in DOMAIN embs |->
                [d \in DOMAIN embs[i].embedding.comps |->
                    Quantize(embs[i].embedding.comps[d], embs[i].embedding)]])

\* Mutant of HeaderOf: the two padding bytes are not written.
HeaderOf_NoPad(n, dim) ==
    <<69, 77, 66, 68, 1>> \o Uint32LE(n) \o Uint32LE(dim) \o <<1>>

\* lines 49-68: 'EMBD', version, n, dim, dtype, pad
HeaderOf(n, dim) ==
    LET headerFixedBytes == 4 + 1 + 4 + 4 + 1
        pad == (4 - (headerFixedBytes % 4)) % 4
    IN  <<69, 77, 66, 68, 1>> \o Uint32LE(n) \o Uint32LE(dim) \o <<1>>
        \o [i \in 1..pad |-> 0]

\* Mutant of PackEmbeddingsBinary: a vector of another length is not
\* rejected.
PackEmbeddingsBinary_NoDimCheck(embs) ==
    IF embs = <<>> THEN Threw("no embeddings")
    ELSE [called |-> TRUE, threw |-> "",
          scales |-> ScalesOf(embs), data |-> DataOf(embs),
          buf |-> HeaderOf(Len(embs), Len(embs[1].embedding.comps))
                  \o Flatten([i \in DOMAIN embs |->
                                 Float32LE(ScalesOf(embs)[i])])
                  \o [j \in DOMAIN DataOf(embs) |->
                         Int8Byte(DataOf(embs)[j])]]

\* packEmbeddingsBinary(embeds)
PackEmbeddingsBinary(embs) ==
    IF embs = <<>> THEN Threw("no embeddings")
    ELSE IF \E i \in DOMAIN embs :
               Len(embs[i].embedding.comps) # Len(embs[1].embedding.comps)
    THEN Threw("dim mismatch")
    ELSE [called |-> TRUE, threw |-> "",
          scales |-> ScalesOf(embs), data |-> DataOf(embs),
          buf |-> HeaderOf(Len(embs), Len(embs[1].embedding.comps))
                  \o Flatten([i \in DOMAIN embs |->
                                 Float32LE(ScalesOf(embs)[i])])
                  \o [j \in DOMAIN DataOf(embs) |->
                         Int8Byte(DataOf(embs)[j])]]

(***************************************************************************)
(* decodeEmbeddingsBinary(input, meta).  `bytes` is a whole buffer         *)
(* (byteOffset 0); offsets count from 0 as in the source, so the byte at   *)
(* offset off is bytes[off + 1].                                           *)
(***************************************************************************)
\* dv.getUint32(off, true)
GetUint32(bytes, off) ==
    bytes[off + 1] + 256 * bytes[off + 2] + 65536 * bytes[off + 3]
    + 16777216 * bytes[off + 4]

\* an element of the Float32Array view at byte offset off
GetFloat32(bytes, off) ==
    LET neg == bytes[off + 4] >= 128
        E == (bytes[off + 4] % 128) * 2 + bytes[off + 3] \div 128
        frac == (bytes[off + 3] % 128) * 65536 + bytes[off + 2] * 256
                + bytes[off + 1]
        f == IF E = 0 THEN (IF frac = 0 THEN F32Zero
                            ELSE F32("subnormal", -126, frac))
             ELSE IF E = 255 THEN (IF frac = 0 THEN F32Inf
                                   ELSE F32("nan", 0, 0))
             ELSE F32("normal", E - 127, frac + 2^23)
    IN  [f EXCEPT !.neg = neg]

\* an element of the Int8Array view at byte offset off
GetInt8(bytes, off) ==
    IF bytes[off + 1] >= 128 THEN bytes[off + 1] - 256 ELSE bytes[off + 1]

\* data[base + d] * scale, a double: [kind, q, scale] is q * scale when
\* finite (exact: 7 bits times 24 bits)
Times(q, scale) ==
    IF scale.kind = "inf"
    THEN [kind |-> IF q = 0 THEN "nan" ELSE "inf", q |-> q, scale |-> scale]
    ELSE [kind |-> "finite", q |-> q, scale |-> scale]

\* scales[i] || 1: 0 and NaN are falsy
OrOne(scale) == IF scale.kind \in {"zero", "nan"} THEN F32One ELSE scale

\* meta[i].content ?? meta[i].id ?? ''
MetaItems == {[content |-> "m"]}
ContentOf(item) == item.content

\* Mutant of DecodeRows: every row is read from the start of the data.
DecodeRows_NoBase(n, dim, scales, data, m) ==
    IF ~m.called
    THEN [called |-> TRUE, threw |-> "", n |-> n, dim |-> dim,
          scales |-> scales, data |-> data, hasRows |-> FALSE, rows |-> <<>>]
    ELSE IF Len(m.items) # n THEN Threw("meta length mismatch")
    ELSE [called |-> TRUE, threw |-> "", n |-> n, dim |-> dim,
          scales |-> scales, data |-> data, hasRows |-> TRUE,
          rows |-> [i \in 1..n |->
                      [content |-> ContentOf(m.items[i]),
                       embedding |-> [d \in 1..dim |->
                           Times(data[d], OrOne(scales[i]))]]]]

\* lines 134-153: the result without meta, the length check, the rows
DecodeRows(n, dim, scales, data, m) ==
    IF ~m.called
    THEN [called |-> TRUE, threw |-> "", n |-> n, dim |-> dim,
          scales |-> scales, data |-> data, hasRows |-> FALSE, rows |-> <<>>]
    ELSE IF Len(m.items) # n THEN Threw("meta length mismatch")
    ELSE [called |-> TRUE, threw |-> "", n |-> n, dim |-> dim,
          scales |-> scales, data |-> data, hasRows |-> TRUE,
          rows |-> [i \in 1..n |->
                      [content |-> ContentOf(m.items[i]),
                       embedding |-> [d \in 1..dim |->
                           Times(data[(i - 1) * dim + d],
                                 OrOne(scales[i]))]]]]

\* Mutant of DecodeEmbeddingsBinary: the version and dtype bytes are not
\* checked.
DecodeEmbeddingsBinary_MagicOnly(bytes, m) ==
    IF Len(bytes) < 4 THEN Threw("RangeError")
    ELSE IF SubSeq(bytes, 1, 4) # <<69, 77, 66, 68>> THEN Threw("bad magic")
    ELSE IF Len(bytes) < 14 THEN Threw("RangeError")
    ELSE LET n == GetUint32(bytes, 5)
             dim == GetUint32(bytes, 9)
         IN  IF 16 + n * 4 > Len(bytes) THEN Threw("RangeError")
             ELSE IF 16 + n * 4 + n * dim > Len(bytes)
             THEN Threw("RangeError")
             ELSE DecodeRows(n, dim,
                     [i \in 1..n |-> GetFloat32(bytes, 16 + (i - 1) * 4)],
                     [j \in 1..(n * dim) |->
                         GetInt8(bytes, 16 + n * 4 + (j - 1))], m)

\* decodeEmbeddingsBinary: a read outside the buffer and a typed-array view
\* that does not fit throw a RangeError
DecodeEmbeddingsBinary(bytes, m) ==
    IF Len(bytes) < 4 THEN Threw("RangeError")
    ELSE IF SubSeq(bytes, 1, 4) # <<69, 77, 66, 68>> THEN Threw("bad magic")
    ELSE IF Len(bytes) < 5 THEN Threw("RangeError")
    ELSE IF bytes[5] # 1 THEN Threw("bad ver")
    ELSE IF Len(bytes) < 14 THEN Threw("RangeError")
    ELSE IF bytes[14] # 1 THEN Threw("bad dt")
    ELSE LET n == GetUint32(bytes, 5)
             dim == GetUint32(bytes, 9)
             headerFixed == 4 + 1 + 4 + 4 + 1
             off == headerFixed + ((4 - (headerFixed % 4)) % 4)
         IN  IF off + n * 4 > Len(bytes) THEN Threw("RangeError")
             ELSE IF off + n * 4 + n * dim > Len(bytes)
             THEN Threw("RangeError")
             ELSE DecodeRows(n, dim,
                     [i \in 1..n |-> GetFloat32(bytes, off + (i - 1) * 4)],
                     [j \in 1..(n * dim) |->
                         GetInt8(bytes, off + n * 4 + (j - 1))], m)

\* the buffers given to decode: what pack returned, copies of it with one
\* header byte changed, and copies cut short
CorruptAt == {1, 4, 5, 6, 14}
CorruptWith == {0, 2}
Inputs(buf) ==
    {buf}
    \cup {[buf EXCEPT ![i] = b] :
             i \in CorruptAt \cap DOMAIN buf, b \in CorruptWith}
    \cup {SubSeq(buf, 1, k) : k \in {3, 15, Len(buf) - 1} \cap DOMAIN buf}
    \cup {<<>>}

\* meta: not supplied, or an array of some length
Metas ==
    {NoCall} \cup {[called |-> TRUE, items |-> items] :
                      items \in SeqsUpTo(MetaItems, MaxBatch + 1)}

\* a run packs one batch and decodes one buffer
Pack(batch) ==
    /\ ~packResult.called
    /\ embeds' = batch
    /\ packResult' = PackEmbeddingsBinary(batch)
    /\ input' = <<>>
    /\ meta' = NoCall
    /\ decodeResult' = NoCall
    /\ UNCHANGED notCodec

Decode(bytes, m) ==
    /\ packResult.called
    /\ packResult.threw = ""
    /\ ~decodeResult.called
    /\ bytes \in Inputs(packResult.buf)
    /\ input' = bytes
    /\ meta' = m
    /\ decodeResult' = DecodeEmbeddingsBinary(bytes, m)
    /\ UNCHANGED <<embeds, packResult, notCodec>>

NextCodec ==
    \/ \E batch \in Batches : Pack(batch)
    \/ \E bytes \in Inputs(IF packResult.called /\ packResult.threw = ""
                            THEN packResult.buf ELSE <<>>), m \in Metas :
          Decode(bytes, m)

CodecSpec == Init /\ [][NextCodec]_vars


-----------------------------------------------------------------------------
(***************************************************************************)
(* The store singleton: getDB of src/src/utils/db.ts and the module        *)
(* variable dbInstance.  ensurePGLiteDriver of src/src/utils/pglite.ts has *)
(* the same shape (test, await, assign); getDB of pglite.ts tests          *)
(* dbInstance and never assigns it.  A call is a record: the instance it   *)
(* constructed (NoDb if none), its position, the instance it returned.     *)
(***************************************************************************)
GetCall(built, pc, result) == [built |-> built, pc |-> pc, result |-> result]

\* the instances constructed so far (`new PGlite` numbers them)
Constructed == {gets[i].built : i \in DOMAIN gets} \ {NoDb}

\* getDB() up to its return or to `await metaDb.waitReady`
GetDBCall ==
    /\ Len(gets) < MaxGets
    /\ IF dbInstance # NoDb
       THEN gets' = Append(gets, GetCall(NoDb, "returned", dbInstance))
       ELSE gets' = Append(gets, GetCall(Cardinality(Constructed) + 1,
                                         "waitReady", NoDb))
    /\ UNCHANGED <<dbInstance, notDriver>>

\* the engine of call i is ready: the instance is cached and returned
WaitReadyResolve(i) ==
    /\ gets[i].pc = "waitReady"
    /\ dbInstance' = gets[i].built
    /\ gets' = [gets EXCEPT ![i] = GetCall(gets[i].built, "returned",
                                           gets[i].built)]
    /\ UNCHANGED notDriver

\* the engine of call i failed to start: 'DB init failed' is thrown
WaitReadyReject(i) ==
    /\ gets[i].pc = "waitReady"
    /\ gets' = [gets EXCEPT ![i] = GetCall(gets[i].built, "threw", NoDb)]
    /\ UNCHANGED <<dbInstance, notDriver>>

NextDriver ==
    \/ GetDBCall
    \/ \E i \in DOMAIN gets : WaitReadyResolve(i)
    \/ \E i \in DOMAIN gets : WaitReadyReject(i)

DriverSpec == Init /\ [][NextDriver]_vars

-----------------------------------------------------------------------------
(***************************************************************************)
(* The inference worker (src/src/utils/worker.ts): PipelineSingleton and   *)
(* the message listener.  A job is one run of the listener, suspended at   *)
(* `await pipeline(...)` inside getInstance or at `await classifier(...)`; *)
(* `pipe` is the pipeline it waits for or runs on.  The progress events    *)
(* the library hands to progress_callback are left out, and so is the      *)
(* `dispose` message, which the coordinator never sends.                   *)
(***************************************************************************)
Job(type, text, pc, pipe) ==
    [type |-> type, text |-> text, pc |-> pc, pipe |-> pipe]
TextMessage(text) == [type |-> "text", text |-> text]

\* the embedding the classifier computes for a text
Embed(text) == IF text = <<"a">> THEN "e1" ELSE "e2"

\* the listener for msg, up to its first await that suspends or its return:
\* getInstance calls pipeline() when instance is null
OnMessage(msg) ==
    /\ IF instance = NoPipe
       THEN /\ pipelineCalls' = pipelineCalls + 1
            /\ jobs' = jobs (+) One(Job(msg.type, msg.text, "awaitPipeline",
                                        pipelineCalls + 1))
       ELSE /\ UNCHANGED pipelineCalls
            /\ jobs' = IF msg.type = "preload" THEN jobs
                       ELSE jobs (+) One(Job(msg.type, msg.text,
                                             "awaitClassifier", instance))
    /\ received' = IF msg.type = "text" THEN received + 1 ELSE received
    /\ UNCHANGED <<instance, toMain>>

\* a message posted to the worker: a terminated worker runs nothing
PostMessage(msg) == IF terminated THEN UNCHANGED pipeVars ELSE OnMessage(msg)

\* pipeline() of job j resolves: the rest of getInstance, then the listener
\* returns (preload) or calls the classifier it was given
PipelineResolve(j) ==
    /\ ~terminated
    /\ BagIn(j, jobs)
    /\ j.pc = "awaitPipeline"
    /\ instance' = j.pipe
    /\ jobs' = IF j.type = "preload" THEN jobs (-) One(j)
               ELSE (jobs (-) One(j))
                    (+) One([j EXCEPT !.pc = "awaitClassifier"])
    /\ UNCHANGED <<pipelineCalls, toMain, received, coordVars, libVars>>

\* classifier(data.text) of job j resolves: the `complete` message is posted
ClassifierResolve(j) ==
    /\ ~terminated
    /\ BagIn(j, jobs)
    /\ j.pc = "awaitClassifier"
    /\ jobs' = jobs (-) One(j)
    /\ toMain' = Append(toMain, [status |-> "complete",
                                 embedding |-> Embed(j.text)])
    /\ UNCHANGED <<instance, pipelineCalls, received, coordVars, libVars>>

(***************************************************************************)
(* The coordinator with the worker of worker.ts, in a session that keeps   *)
(* the caller contract (initialize() once, before the first query), in     *)
(* which the store loads and every search resolves with the rows the       *)
(* store has for the embedding.                                            *)
(***************************************************************************)
QueryTexts == {<<>>, <<"a">>, <<" ", "b">>}
ResultsFor(emb) == IF emb = "e1" THEN <<Row("y"), Row("x")>> ELSE <<>>

InitializeWithWorker ==
    /\ loads = <<>>
    /\ InitializeBody
    /\ PostMessage([type |-> "preload", text |-> <<>>])

Ask(text) ==
    /\ loads # <<>>
    /\ Trim(text) # <<>> => received < MaxQueries
    /\ Classify(text)

Dispatch(t) == TimerCallback(t) /\ PostMessage(TextMessage(t.text))

\* the host delivers the worker's next message to the listener
Deliver ==
    /\ toMain # <<>>
    /\ OnWorkerMessage(Head(toMain).status, Head(toMain).embedding)
    /\ toMain' = Tail(toMain)
    /\ UNCHANGED <<instance, pipelineCalls, jobs, received>>

Answered(h) == SearchResolve(h, ResultsFor(h.emb))

NextPipeline ==
    \/ InitializeWithWorker
    \/ \E k \in DOMAIN loads : LoadDbResolve(k)
    \/ \E text \in QueryTexts : Ask(text)
    \/ Tick
    \/ \E t \in timers : Dispatch(t)
    \/ \E j \in BagToSet(jobs) : PipelineResolve(j)
    \/ \E j \in BagToSet(jobs) : ClassifierResolve(j)
    \/ Deliver
    \/ \E h \in BagToSet(handlers) : Answered(h)

PipelineSpec == Init /\ [][NextPipeline]_vars

-----------------------------------------------------------------------------
(***************************************************************************)
(* Properties.                                                             *)
(***************************************************************************)
\* the handlers suspended on a store-ready future / on their search call
Waiting == Restrict(handlers, {h \in BagToSet(handlers) : h.pc = "awaitDb"})
Searching ==
    Restrict(handlers, {h \in BagToSet(handlers) : h.pc = "awaitSearch"})
WaitingWithEmbedding ==
    \E h \in BagToSet(handlers) : h.pc = "awaitDb" /\ h.emb # NoEmb
LoadFailed == \E k \in DOMAIN loads : loads[k] = "failed"
LoadPending == \E k \in DOMAIN loads : loads[k] = "pending"

\* the handler of a `complete` message with embedding e, suspended on the
\* current store-ready future
Suspended(e) ==
    [pc |-> "awaitDb", emb |-> e, promise |-> dbReadyPromise, db |-> NoDb,
     calls |-> 0]

(***************************************************************************)
(* C1: a `complete` message with an embedding that arrives after           *)
(* initialize() and before a store load has succeeded suspends its handler *)
(* on the current store-ready future: the handler neither throws nor calls *)
(* search nor touches isSearching and matched, and a handler that waits    *)
(* has made no search call.                                                *)
(***************************************************************************)
C1_WaitsForStore ==
    /\ [](\A h \in BagToSet(Waiting) : h.calls = 0 /\ h.db = NoDb)
    /\ [][\A e \in Embeddings :
            (/\ HandleWorkerMessage("complete", e)
             /\ loads # <<>>
             /\ database = NoDb)
            => /\ handlers' = handlers (+) One(Suspended(e))
               /\ UNCHANGED <<isSearching, matched, uncaught>>]_vars

C1_Witness ==
    /\ LoadPending
    /\ WaitingWithEmbedding
    /\ isSearching
    /\ matched = MatchedNull
    /\ ~uncaught

(***************************************************************************)
(* C2: in a session with one initialize(), whatever the order of the load  *)
(* and the messages: every handler that was waiting when the load          *)
(* succeeds makes its search call in that step, a handler waiting on its   *)
(* search has made exactly one call, with the loaded handle and its        *)
(* message's embedding, the results of a search become matched (in order)  *)
(* with isSearching false, and a handler does not wait forever unless the  *)
(* load fails.                                                             *)
(***************************************************************************)
C2_SearchesOnceStoreLoaded ==
    /\ [](\A h \in BagToSet(Searching) :
            /\ h.calls = 1
            /\ h.emb \in Embeddings
            /\ h.db # NoDb
            /\ h.db = database)
    /\ [][BagCardinality(Waiting') < BagCardinality(Waiting)
            => /\ database' # NoDb
               /\ Waiting' = EmptyBag
               /\ \A h \in BagToSet(Waiting) :
                     h.emb # NoEmb =>
                        CopiesIn([h EXCEPT !.pc = "awaitSearch",
                                           !.db = database', !.calls = 1],
                                 handlers')
                        >= CopiesIn(h, handlers)]_vars
    /\ [][\A h \in BagToSet(handlers), results \in ResultLists :
            SearchResolve(h, results)
            => /\ matched' = [null |-> FALSE,
                              ids |-> [i \in 1..Len(results) |->
                                          results[i].identifier]]
               /\ ~isSearching']_vars
    /\ WaitingWithEmbedding ~> (~WaitingWithEmbedding \/ LoadFailed)

C2_Witness ==
    /\ loads = <<"ok">>
    /\ matched = [null |-> FALSE, ids |-> <<"y", "x">>]
    /\ ~isSearching
    /\ \E h \in BagToSet(Searching) : h.promise # NoPromise

(***************************************************************************)
(* C3: a `complete` message with an embedding is never discarded *)
(* without a search, whenever it arrives: its handler stays in progress    *)
(* (waiting for the store or for its search).                              *)
(***************************************************************************)
C3_NeverDropped ==
    [][\A e \in Embeddings :
          HandleWorkerMessage("complete", e)
          => BagCardinality(handlers') = BagCardinality(handlers) + 1]_vars

(***************************************************************************)
(* C4 as stated: at most one `complete` handler is in progress (suspended  *)
(* on the store-ready future or on its search call) at any time.           *)
(***************************************************************************)
C4_OneHandlerAtATime == BagCardinality(handlers) <= 1

(***************************************************************************)
(* C4 amended: handlers overlap, since a suspended handler does not hold   *)
(* back the next message; every handler in progress is suspended at one of *)
(* the two awaits and has at most one search call outstanding, so there    *)
(* are as many outstanding search calls as handlers waiting on a search.   *)
(***************************************************************************)
C4_OneCallPerHandler ==
    \A h \in BagToSet(handlers) :
        \/ h.pc = "awaitDb" /\ h.calls = 0
        \/ h.pc = "awaitSearch" /\ h.calls = 1

C4_Witness == BagCardinality(Searching) >= 2

(***************************************************************************)
(* C5: a burst of non-empty classify calls, each made while the dispatch   *)
(* of the previous one is pending (less than the delay after it), posts    *)
(* nothing while a dispatch is pending and exactly one text message once   *)
(* the last call's timer has run: the text of the last call, posted when   *)
(* the full delay has passed since that call.                              *)
(***************************************************************************)
C5_OneDispatchPerBurst ==
    /\ textPosts <= 1
    /\ debounceTimer # NoTimer => textPosts = 0
    /\ (burstCalls > 0 /\ timers = {})
       => /\ textPosts = 1
          /\ lastTextPosted.text = lastText
          /\ lastTextPosted.waited >= 150

C5_Witness ==
    /\ burstCalls >= 2
    /\ textPosts = 1
    /\ lastTextPosted = [text |-> <<" ", "b">>, waited |-> 150]

(***************************************************************************)
(* C6: at most one debounce timer is outstanding, and debounceTimer is     *)
(* non-null exactly when a dispatch is scheduled: it is the handle of the  *)
(* one live timer.                                                         *)
(***************************************************************************)
C6_OneTimer ==
    /\ Cardinality(timers) <= 1
    /\ (debounceTimer # NoTimer) <=> (timers # {})
    /\ \A t \in timers : t.id = debounceTimer /\ ~t.orphan

C6_Witness ==
    /\ lastClear = "classify"
    /\ Cardinality(timers) = 1
    /\ debounceTimer # NoTimer

(***************************************************************************)
(* C7: classify with a text that is empty after trimming sets matched to   *)
(* null and isSearching to false, posts nothing, and cancels the pending   *)
(* dispatch; while no burst is open no dispatch is scheduled, so no text   *)
(* message is posted before the next non-empty classify.                   *)
(***************************************************************************)
C7_EmptyClassifyClears ==
    /\ [](burstCalls = 0 => timers = {})
    /\ [][\A text \in {<<>>, <<" ">>} :
            Classify(text)
            => /\ matched' = [null |-> TRUE, ids |-> <<>>]
               /\ ~isSearching'
               /\ timers' = {}
               /\ debounceTimer' = NoTimer
               /\ UNCHANGED <<preloads, textPosts, lastTextPosted>>]_vars

C7_Witness ==
    /\ lastClear = "classifyEmpty"
    /\ matched = [null |-> TRUE, ids |-> <<>>]
    /\ ~isSearching
    /\ timers = {}
    /\ textPosts = 0

(***************************************************************************)
(* C8: destroy() cancels the pending debounce timer, removes the message   *)
(* listener and terminates the worker when it offers terminate(); no timer *)
(* that was pending at a destroy() ever posts, and a detached coordinator  *)
(* starts no handler and takes no model status.                            *)
(***************************************************************************)
C8_DestroyReleases ==
    /\ [](~lateDispatch)
    /\ [][Destroy
            => /\ timers' = {}
               /\ debounceTimer' = NoTimer
               /\ ~listening'
               /\ terminated' = (terminated \/ hasTerminate)]_vars
    /\ [][~listening
            => /\ ~listening'
               /\ modelReady' = modelReady
               /\ BagCardinality(handlers') <= BagCardinality(handlers)]_vars

C8_Witness ==
    /\ lastClear = "destroy"
    /\ ~listening
    /\ terminated
    /\ timers = {}
    /\ textPosts = 0

(***************************************************************************)
(* C9: in a session with one initialize(), a failed store load is only     *)
(* logged: dbReady stays false, there is no second loadDb call, the        *)
(* failing step changes no state and releases nobody, every `complete`     *)
(* handler (with or without an embedding) that arrives afterwards waits,   *)
(* and the waiting handlers stay suspended, without a throw.               *)
(***************************************************************************)
C9_FailedLoadIsSilent ==
    /\ [](LoadFailed => ~dbReady /\ database = NoDb /\ Len(loads) = 1)
    /\ [][\A k \in DOMAIN loads :
            LoadDbReject(k)
            => UNCHANGED <<matched, isSearching, dbReady, handlers,
                           uncaught>>]_vars
    /\ [][LoadFailed
            => /\ \A h \in BagToSet(Waiting) :
                     CopiesIn(h, handlers') >= CopiesIn(h, handlers)
               /\ \A e \in Embeddings \cup {NoEmb} :
                     HandleWorkerMessage("complete", e)
                     => /\ handlers' = handlers (+) One(Suspended(e))
                        /\ UNCHANGED <<matched, isSearching, uncaught>>]_vars

C9_Witness ==
    /\ LoadFailed
    /\ WaitingWithEmbedding
    /\ \E h \in BagToSet(Waiting) : h.emb = NoEmb
    /\ isSearching

(***************************************************************************)
(* C10 as stated: a failed store load reaches the caller of initialize():  *)
(* the promise initialize() returned is rejected.                          *)
(***************************************************************************)
C10_FailureReachesCaller ==
    \A k \in DOMAIN loads : loads[k] = "failed" => initResults[k] = "rejected"

(***************************************************************************)
(* C10 amended: the coordinator swallows a failed store load.  The promise *)
(* each initialize() returned is fulfilled when initialize() returns and   *)
(* stays fulfilled whatever the load does; a failed load leaves the store  *)
(* unset.                                                                  *)
(***************************************************************************)
C10_FailureIsSwallowed ==
    /\ Len(initResults) = Len(loads)
    /\ \A k \in DOMAIN loads : initResults[k] = "fulfilled"
    /\ (\A k \in DOMAIN loads : loads[k] = "failed") => database = NoDb

C10_Witness ==
    \E k \in DOMAIN loads : loads[k] = "failed" /\ initResults[k] = "fulfilled"

(***************************************************************************)
(* C11: when initialize() is called more than once, a handler suspended on *)
(* the store-ready future of an earlier call is resumed when a store load  *)
(* succeeds (once a store handle is cached no handler is left waiting),    *)
(* and dbReady is true exactly when a store handle is cached.              *)
(***************************************************************************)
C11_ReinitializeKeepsWaiters ==
    /\ dbReady <=> database # NoDb
    /\ database # NoDb => Waiting = EmptyBag

(***************************************************************************)
(* C12: one call of initialize() creates one store-ready future (pending), *)
(* calls loadDb once and posts one preload message, in the same step, so   *)
(* the preload is posted while the load it started is still pending;       *)
(* nothing else creates a future, calls loadDb or posts a preload.         *)
(***************************************************************************)
C12_InitializeStartsBoth ==
    /\ [](Len(promises) = Len(loads) /\ preloads = Len(loads))
    /\ [][Initialize
            => /\ Len(promises') = Len(promises) + 1
               /\ promises'[Len(promises')] = NoDb
               /\ dbReadyPromise' = Len(promises')
               /\ Len(loads') = Len(loads) + 1
               /\ loads'[Len(loads')] = "pending"
               /\ preloads' = preloads + 1]_vars
    /\ [][(\/ preloads' # preloads
           \/ Len(loads') # Len(loads)
           \/ Len(promises') # Len(promises)) => Initialize]_vars

C12_Witness ==
    /\ preloads = 1
    /\ loads = <<"pending">>
    /\ promises = <<NoDb>>
    /\ dbReadyPromise = 1

\* the distance of a returned row to the query of the last search
DistOf(r) == NegInnerProduct(r.embedding, searchArgs.embedding)
\* the stored rows that pass the threshold of the last search
Passing ==
    {k \in DOMAIN table :
        NegInnerProduct(table[k].embedding, searchArgs.embedding)
            < 0 - searchArgs.match_threshold}

(***************************************************************************)
(* C13: a search result holds at most one row per identifier, each row is  *)
(* a stored row, and no stored row with the same identifier is nearer to   *)
(* the query.                                                              *)
(***************************************************************************)
C13_NearestPerIdentifier ==
    searchArgs.called =>
        /\ \A i, j \in DOMAIN searchRows :
              i # j => searchRows[i].identifier # searchRows[j].identifier
        /\ \A i \in DOMAIN searchRows :
              /\ searchRows[i].id \in DOMAIN table
              /\ table[searchRows[i].id].identifier = searchRows[i].identifier
              /\ table[searchRows[i].id].embedding = searchRows[i].embedding
              /\ \A k \in DOMAIN table :
                    table[k].identifier = searchRows[i].identifier
                    => DistOf(searchRows[i]) <= DistOf(table[k])

\* two stored rows of one identifier at different distances both pass the
\* threshold, and the result has that identifier
C13_Witness ==
    /\ searchArgs.called
    /\ \E i \in DOMAIN searchRows, k, l \in Passing :
          /\ table[k].identifier = searchRows[i].identifier
          /\ table[l].identifier = searchRows[i].identifier
          /\ DistOf(table[k]) < DistOf(table[l])

(***************************************************************************)
(* C14: the result is the pipeline's: every row passes the threshold       *)
(* (distance below minus matchThreshold), is the nearest of its            *)
(* identifier, the rows ascend in distance, and the result has as many     *)
(* rows as there are passing identifiers, cut to `limit`: the rows left    *)
(* out are of identifiers no nearer than the last row returned.            *)
(***************************************************************************)
C14_PipelineOrder ==
    searchArgs.called =>
        LET ids == {table[k].identifier : k \in Passing}
            got == {searchRows[i].identifier : i \in DOMAIN searchRows}
            want == IF searchArgs.limit < Cardinality(ids)
                    THEN searchArgs.limit ELSE Cardinality(ids)
        IN  /\ Len(searchRows) = want
            /\ Len(searchRows) <= searchArgs.limit
            /\ Cardinality(got) = Len(searchRows)
            /\ \A i \in DOMAIN searchRows :
                  /\ searchRows[i].id \in Passing
                  /\ \A k \in Passing :
                        table[k].identifier = searchRows[i].identifier
                        => DistOf(searchRows[i]) <= DistOf(table[k])
            /\ \A i, j \in DOMAIN searchRows :
                  i < j => DistOf(searchRows[i]) <= DistOf(searchRows[j])
            /\ \A k \in Passing :
                  table[k].identifier \notin got
                  => \A i \in DOMAIN searchRows :
                        DistOf(searchRows[i]) <= DistOf(table[k])

\* the limit cuts a result in which a nearer identifier has a duplicate
C14_Witness ==
    /\ searchArgs.called
    /\ Len(searchRows) = 2
    /\ searchArgs.limit = 2
    /\ Cardinality(Passing) = 3
    /\ \E k, l \in Passing :
          /\ k # l
          /\ table[k].identifier = table[l].identifier
          /\ table[k].identifier = searchRows[1].identifier

\* decode was given the buffer pack returned, with meta, and returned rows
RoundTrip ==
    /\ packResult.called
    /\ packResult.threw = ""
    /\ decodeResult.called
    /\ input = packResult.buf
    /\ decodeResult.threw = ""
    /\ decodeResult.hasRows

\* the quantised values of a decoded vector whose components are finite;
\* they all carry the row's scale
QuantaOf(decoded) == [d \in DOMAIN decoded |-> decoded[d].q]
AllFinite(decoded) == \A d \in DOMAIN decoded : decoded[d].kind = "finite"

\* cosine(a, b) > 0.98 for integer vectors: dot > 0 and
\* dot^2 / (|a|^2 |b|^2) > 0.98^2 = 2401 / 2500; a zero vector has cosine 0
\* (the test's cosine) or none
CosineAbove98(a, b) ==
    /\ Dot(a, b) > 0
    /\ 2500 * Dot(a, b) * Dot(a, b) > 2401 * Dot(a, a) * Dot(b, b)

\* the cosine of the vector comps * 2^exp and a decoded vector q * scale:
\* the positive factors 2^exp and scale cancel
CloseTo(vec, decoded) ==
    /\ AllFinite(decoded)
    /\ Len(decoded) = Len(vec.comps)
    /\ CosineAbove98(vec.comps, QuantaOf(decoded))

Packed == packResult.called /\ packResult.threw = ""
\* the int8 values pack stored for vector i
StoredOf(i) ==
    LET dim == Len(embeds[1].embedding.comps)
    IN  [d \in 1..dim |-> packResult.data[(i - 1) * dim + d]]

(***************************************************************************)
(* C16: for every vector pack writes, each stored int8 lies in             *)
(* [-127, 127]; the stored scale is greater than 0; and the component of   *)
(* largest magnitude of a non-zero vector is stored as 127 or -127, with   *)
(* its sign.                                                               *)
(***************************************************************************)
C16_ScalePositive ==
    Packed =>
        \A i \in DOMAIN embeds :
            LET comps == embeds[i].embedding.comps
                stored == StoredOf(i)
            IN  /\ packResult.scales[i].kind \in {"normal", "subnormal", "inf"}
                /\ ~packResult.scales[i].neg
                /\ \A d \in DOMAIN stored :
                      -127 <= stored[d] /\ stored[d] <= 127
                /\ \A d \in DOMAIN comps :
                      (Abs(comps[d]) = MaxAbs(comps) /\ comps[d] # 0)
                      => stored[d] = (IF comps[d] > 0 THEN 127 ELSE -127)

\* some vector of the batch has another length than the first
Mismatched ==
    \E i \in DOMAIN embeds :
        Len(embeds[i].embedding.comps) # Len(embeds[1].embedding.comps)

(***************************************************************************)
(* C17: pack of an empty batch throws 'no embeddings' and pack of a batch  *)
(* in which some vector's length differs from the first's throws           *)
(* 'dim mismatch'; what was thrown carries no buffer, and a buffer that is *)
(* returned holds every vector at its own length.                          *)
(***************************************************************************)
C17_RejectsEmptyAndMismatched ==
    packResult.called =>
        /\ embeds = <<>> => packResult = Threw("no embeddings")
        /\ (embeds # <<>> /\ Mismatched) => packResult = Threw("dim mismatch")
        /\ packResult.threw # "" => DOMAIN packResult = {"called", "threw"}
        /\ Packed =>
              /\ embeds # <<>>
              /\ ~Mismatched
              /\ Len(packResult.data)
                     = Len(embeds) * Len(embeds[1].embedding.comps)
              /\ \A i \in DOMAIN embeds :
                    Len(StoredOf(i)) = Len(embeds[i].embedding.comps)

\* a batch whose second vector is shorter than the first was rejected
C17_Witness ==
    /\ Len(embeds) = 2
    /\ Len(embeds[1].embedding.comps) = 2
    /\ Len(embeds[2].embedding.comps) = 1
    /\ packResult = Threw("dim mismatch")

\* the header of the buffer given to decode, as far as it is there
MagicOk == Len(input) >= 4 /\ SubSeq(input, 1, 4) = <<69, 77, 66, 68>>
VersionOk == Len(input) >= 5 /\ input[5] = 1
DtypeOk == Len(input) >= 14 /\ input[14] = 1
\* the count the buffer encodes
EncodedCount ==
    input[6] + 256 * input[7] + 65536 * input[8] + 16777216 * input[9]

(***************************************************************************)
(* C18: decode throws, and returns neither vectors nor a shorter result,   *)
(* for every buffer whose magic is not 'EMBD' ('bad magic'), whose version *)
(* is not 1 ('bad ver') or whose dtype is not 1 ('bad dt'), and whenever   *)
(* meta is supplied with a length that differs from the encoded count.     *)
(***************************************************************************)
C18_RejectsBadHeaderAndMeta ==
    decodeResult.called =>
        /\ decodeResult.threw # ""
              => DOMAIN decodeResult = {"called", "threw"}
        /\ ~MagicOk => decodeResult.threw \in {"bad magic", "RangeError"}
        /\ (MagicOk /\ ~VersionOk)
              => decodeResult.threw \in {"bad ver", "RangeError"}
        /\ (MagicOk /\ VersionOk /\ ~DtypeOk)
              => decodeResult.threw \in {"bad dt", "RangeError"}
        /\ (MagicOk /\ VersionOk /\ DtypeOk /\ meta.called
            /\ Len(meta.items) # EncodedCount)
              => decodeResult.threw \in {"meta length mismatch", "RangeError"}
        /\ (Len(input) >= 4 /\ ~MagicOk) => decodeResult.threw = "bad magic"
        /\ (MagicOk /\ Len(input) >= 5 /\ ~VersionOk)
              => decodeResult.threw = "bad ver"
        /\ (MagicOk /\ VersionOk /\ Len(input) >= 14 /\ ~DtypeOk)
              => decodeResult.threw = "bad dt"
        /\ (input = packResult.buf /\ meta.called
            /\ Len(meta.items) # Len(embeds))
              => decodeResult.threw = "meta length mismatch"
        /\ (decodeResult.threw = "" /\ decodeResult.hasRows)
              => Len(decodeResult.rows) = EncodedCount

\* a whole buffer with another dtype byte was rejected, with meta of the
\* right length
C18_Witness ==
    /\ decodeResult = Threw("bad dt")
    /\ Len(input) = Len(packResult.buf)
    /\ input[14] = 2
    /\ meta.called
    /\ Len(meta.items) = Len(embeds)

(***************************************************************************)
(* C19: the buffer pack returns is 'E','M','B','D', the version byte 1,    *)
(* the count and the dimension as little-endian uint32 at offsets 5 and 9, *)
(* the dtype byte 1 at offset 13, two zero bytes, the count float32        *)
(* scales and the count * dim int8 values, 16 + 4 * count + count * dim    *)
(* bytes in all; and decode of that buffer returns the count, the          *)
(* dimension, the scales and the int8 values pack computed.                *)
(***************************************************************************)
C19_LayoutRoundTrips ==
    /\ Packed =>
          LET buf == packResult.buf
              n == Len(embeds)
              dim == Len(embeds[1].embedding.comps)
          IN  /\ Len(buf) = 16 + 4 * n + n * dim
              /\ SubSeq(buf, 1, 4) = <<69, 77, 66, 68>>
              /\ buf[5] = 1
              /\ SubSeq(buf, 6, 9) = <<n, 0, 0, 0>>
              /\ SubSeq(buf, 10, 13) = <<dim, 0, 0, 0>>
              /\ buf[14] = 1
              /\ buf[15] = 0
              /\ buf[16] = 0
              /\ \A i \in 1..n :
                    SubSeq(buf, 16 + 4 * (i - 1) + 1, 16 + 4 * i)
                        = Float32LE(packResult.scales[i])
              /\ \A j \in 1..(n * dim) :
                    buf[16 + 4 * n + j] = Int8Byte(packResult.data[j])
    /\ (Packed /\ decodeResult.called /\ input = packResult.buf)
          => /\ decodeResult.threw \in {"", "meta length mismatch"}
             /\ decodeResult.threw = ""
                   => /\ decodeResult.n = Len(embeds)
                      /\ decodeResult.dim = Len(embeds[1].embedding.comps)
                      /\ decodeResult.scales = packResult.scales
                      /\ decodeResult.data = packResult.data

\* a batch of two vectors with negative values and different scales was
\* packed into 28 bytes and decoded without meta
C19_Witness ==
    /\ Packed
    /\ Len(embeds) = 2
    /\ embeds[1].embedding = Vec(0, <<2, -1>>)
    /\ embeds[2].embedding = Vec(0, <<-3, 1>>)
    /\ Len(packResult.buf) = 28
    /\ packResult.scales[1] # packResult.scales[2]
    /\ input = packResult.buf
    /\ ~meta.called
    /\ decodeResult.threw = ""
    /\ decodeResult.data = <<127, -63, -127, 42>>

(***************************************************************************)
(* C22: classify with a text that is not empty after trimming sets         *)
(* isSearching and calls onStateChange in the call itself: the dispatch it *)
(* schedules has waited 0 ms, the call posts nothing, and matched,         *)
(* modelReady and dbReady are left as they were.                           *)
(***************************************************************************)
C22_SpinnerAtOnce ==
    [][\A text \in Texts :
          (Classify(text) /\ Trim(text) # <<>>)
          => /\ isSearching'
             /\ notified'
             /\ UNCHANGED <<matched, modelReady, dbReady>>
             /\ UNCHANGED <<preloads, lateDispatch>>
             /\ lastTextPosted' \in {lastTextPosted, NoMsg}
             /\ textPosts' \in {textPosts, 0}
             /\ \E t \in timers' :
                   /\ t.id = debounceTimer'
                   /\ t.text = text
                   /\ t.elapsed = 0]_vars

\* the call was made with results on display and the spinner came on
C22_Witness ==
    /\ isSearching
    /\ notified
    /\ matched = MatchedOf(<<"y", "x">>)
    /\ modelReady
    /\ dbReady
    /\ textPosts = 0
    /\ \E t \in timers : t.elapsed = 0 /\ t.text = <<" ", "b">>

\* the store-ready future a handler that starts now would wait on is pending
StorePending ==
    /\ database = NoDb
    /\ dbReadyPromise # NoPromise
    /\ promises[dbReadyPromise] = NoDb

(***************************************************************************)
(* C23 as stated: a `complete` message without embedding clears            *)
(* isSearching in the step that handles it, whatever the state of the      *)
(* store load, and leaves matched unchanged.                               *)
(***************************************************************************)
C23_ClearsWhateverTheLoad ==
    [][HandleWorkerMessage("complete", NoEmb)
          => ~isSearching' /\ UNCHANGED matched]_vars

(***************************************************************************)
(* C23 amended: a `complete` message without embedding never leads to a    *)
(* search call and leaves matched unchanged.  It clears isSearching at     *)
(* once unless the store-ready future is pending; then its handler waits   *)
(* on that future with isSearching as it was, and isSearching is cleared   *)
(* in the step in which the load resolves the future.                      *)
(***************************************************************************)
C23_ClearsOnceStoreKnown ==
    /\ [](\A h \in BagToSet(handlers) :
            h.emb = NoEmb => h.pc = "awaitDb" /\ h.calls = 0)
    /\ [][HandleWorkerMessage("complete", NoEmb)
            => /\ UNCHANGED matched
               /\ IF StorePending
                  THEN /\ handlers' = handlers (+) One(Suspended(NoEmb))
                       /\ UNCHANGED isSearching
                       /\ ~notified'
                  ELSE /\ ~isSearching'
                       /\ notified'
                       /\ UNCHANGED handlers]_vars
    /\ [][\A k \in DOMAIN loads :
            (/\ LoadDbResolve(k)
             /\ \E h \in BagToSet(handlers) :
                   /\ h.pc = "awaitDb"
                   /\ h.emb = NoEmb
                   /\ h.promise = dbReadyResolve
                   /\ promises[h.promise] = NoDb)
            => ~isSearching' /\ UNCHANGED matched]_vars

\* the handler of a message without embedding waits with the spinner on
C23_Witness ==
    /\ LoadPending
    /\ isSearching
    /\ ~notified
    /\ \E h \in BagToSet(Waiting) : h.emb = NoEmb
    /\ ~WaitingWithEmbedding

(***************************************************************************)
(* C24: an `initiate` message sets modelReady to false and a `ready`       *)
(* message sets it to true, each with a call of onStateChange; neither     *)
(* changes dbReady, isSearching or matched; a message with another status  *)
(* or none changes nothing and notifies nobody.                            *)
(***************************************************************************)
C24_ModelFlagOnly ==
    [][\A emb \in Embeddings \cup {NoEmb} :
          /\ HandleWorkerMessage("initiate", emb)
                => /\ ~modelReady'
                   /\ notified'
                   /\ UNCHANGED <<dbReady, isSearching, matched, handlers>>
          /\ HandleWorkerMessage("ready", emb)
                => /\ modelReady'
                   /\ notified'
                   /\ UNCHANGED <<dbReady, isSearching, matched, handlers>>
          /\ HandleWorkerMessage("progress", emb)
                => /\ ~notified'
                   /\ UNCHANGED <<coreState, dbVars, timerVars, postVars,
                                  workerVars, handlers, uncaught>>]_vars

\* the model became ready while a query was waiting in the debounce timer:
\* the spinner is still on
C24_Witness ==
    /\ modelReady
    /\ notified
    /\ isSearching
    /\ ~dbReady
    /\ loads = <<>>
    /\ matched = MatchedNull
    /\ \E t \in timers : t.elapsed > 0

(***************************************************************************)
(* C29: when the search call of a `complete` handler rejects, the          *)
(* rejection is handled (no uncaught rejection) and the handler clears     *)
(* isSearching.                                                            *)
(***************************************************************************)
C29_RejectedSearchClears ==
    [][\A h \in BagToSet(handlers) :
          SearchReject(h) => ~isSearching' /\ ~uncaught']_vars

(***************************************************************************)
(* C30: once destroy() has returned (the listener is detached for good),   *)
(* no step changes matched, modelReady, dbReady or isSearching, calls      *)
(* onStateChange or posts to the worker.                                   *)
(***************************************************************************)
C30_QuietAfterDestroy ==
    [][~listening
          => /\ UNCHANGED coreState
             /\ ~notified'
             /\ UNCHANGED preloads
             /\ \A t \in timers : ~TimerFire(t)]_vars

(***************************************************************************)
(* C25: search throws a TypeError, and sends no query to the database,     *)
(* whenever its embedding argument is not an array, has a length other     *)
(* than 384 or holds a value that is not of type number; for an array of   *)
(* 384 numbers it throws nothing and sends the query with that vector.     *)
(***************************************************************************)
C25_RejectsBadEmbedding ==
    searchCall.called =>
        LET e == searchCall.embedding
            good == e.isArray /\ e.length = 384 /\ e.numbers
        IN  /\ ~good => /\ searchCall.threw = "TypeError"
                        /\ searchArgs = NoCall
                        /\ searchRows = <<>>
            /\ good => /\ searchCall.threw = ""
                       /\ searchArgs.called
                       /\ searchArgs.embedding = e.vec

\* an array of 384 values that are not all numbers was rejected although
\* the table has a row the vector would match
C25_Witness ==
    /\ searchCall.called
    /\ searchCall.threw = "TypeError"
    /\ searchCall.embedding.isArray
    /\ searchCall.embedding.length = 384
    /\ ~searchCall.embedding.numbers
    /\ table # <<>>
    /\ searchArgs = NoCall

(***************************************************************************)
(* C21: getDB constructs at most one database instance whose engine does   *)
(* not fail to start, whatever the number and interleaving of the calls,   *)
(* and every call that returns, returns that instance.                     *)
(***************************************************************************)
C21_OneInstance ==
    /\ Cardinality({gets[i].built : i \in {j \in DOMAIN gets :
                                             gets[j].pc # "threw"}} \ {NoDb})
          <= 1
    /\ \A i, j \in DOMAIN gets :
          (gets[i].pc = "returned" /\ gets[j].pc = "returned")
          => gets[i].result = gets[j].result

(***************************************************************************)
(* C26: the worker calls pipeline() at most once (nothing disposes of the  *)
(* instance in a session), whatever the interleaving of the preload and    *)
(* the text messages, and every message is served by that one pipeline.    *)
(***************************************************************************)
C26_OnePipeline ==
    /\ pipelineCalls <= 1
    /\ \A j \in BagToSet(jobs) : j.pipe = 1
    /\ instance \in {NoPipe, 1}

\* a query the worker has received whose `complete` is not fully handled
Unanswered ==
    \/ \E j \in BagToSet(jobs) : j.type = "text"
    \/ toMain # <<>>
    \/ handlers # EmptyBag

(***************************************************************************)
(* C27: while queries are being typed (no empty text since), isSearching   *)
(* is true in every state in which a query is waiting in the debounce      *)
(* timer or has been posted and its `complete` is not fully handled; the   *)
(* completion of an earlier query does not switch it off.                  *)
(***************************************************************************)
C27_SearchingWhileUnanswered ==
    (burstCalls > 0 /\ (debounceTimer # NoTimer \/ Unanswered))
        => isSearching

\* the store is loaded, no query is waiting, in the worker or being handled
Quiescent ==
    /\ database # NoDb
    /\ timers = {}
    /\ jobs = EmptyBag
    /\ toMain = <<>>
    /\ handlers = EmptyBag

(***************************************************************************)
(* C28: once every query is answered and every handler has finished,       *)
(* matched holds the results of the text posted last, or null when the     *)
(* last call of classify had an empty text: no earlier result has          *)
(* overwritten the later outcome.                                          *)
(***************************************************************************)
C28_LatestQueryWins ==
    Quiescent =>
        matched = IF burstCalls > 0
                  THEN MatchedOf(Identifiers(ResultsFor(
                                     Embed(lastTextPosted.text))))
                  ELSE MatchedNull
=============================================================================
